---------------------------- MODULE Spec2Model ----------------------------
(***************************************************************************)
(* A model of gluapack's unpacker (src/unpack.rs): the tree copier         *)
(* (Unpacker::copy_addon), the legacy container decoder                    *)
(* (Unpacker::parse_sv_packed_file), the chunked container decoder         *)
(* (Unpacker::parse_packed_files) and the orchestrator (Unpacker::unpack). *)
(*                                                                         *)
(* Bytes are integers 0..255.  A file name is a sequence of bytes, a path  *)
(* is a sequence of file names from the file system's root, and the file   *)
(* system is a record of its directories, its files' contents and its      *)
(* symbolic links.                                                         *)
(***************************************************************************)
EXTENDS Integers, Sequences, FiniteSets, TLC

VARIABLES
    fs,                    \* the file system: [dirs, files, links]
    pc,                    \* where Unpacker::unpack stands
    no_copy,               \* unpack's no_copy argument
    out_dir,               \* Unpacker.out_dir
    stack,                 \* the recursion of the inner copy_addon: frames [from, to, todo]
    visited_symlinks,      \* copy_addon's HashSet of symlink paths
    sv_packed_file,        \* Option<PathBuf>: <<>> is None, <<p>> is Some(p)
    cl_chunk_files,        \* Vec<PathBuf>
    sh_chunk_files,        \* Vec<PathBuf>
    f,                     \* the reader of the running decoder: [buf, pos]
    entries,               \* the running decoder's entry counter
    total_unpacked_files,  \* unpack's sum of the decoders' counts
    total_packed_files,    \* unpack's count of packed files
    result,                \* what unpack returned: "running", "Ok" or the error
    last                   \* what the latest read_entry call did

vars == <<fs, pc, no_copy, out_dir, stack, visited_symlinks, sv_packed_file, cl_chunk_files,
          sh_chunk_files, f, entries, total_unpacked_files, total_packed_files,
          result, last>>

(***************************************************************************)
(* Bytes and names                                                         *)
(***************************************************************************)
NUL == 0
NEWLINE == 10
PLUS == 43
DOT == 46
SLASH == 47
TERMINATOR_HACK == 124
REPLACEMENT_CHARACTER == 65533

Code ==
    ("a" :> 97) @@ ("b" :> 98) @@ ("c" :> 99) @@ ("d" :> 100) @@ ("e" :> 101) @@
    ("f" :> 102) @@ ("g" :> 103) @@ ("h" :> 104) @@ ("i" :> 105) @@ ("j" :> 106) @@
    ("k" :> 107) @@ ("l" :> 108) @@ ("m" :> 109) @@ ("n" :> 110) @@ ("o" :> 111) @@
    ("p" :> 112) @@ ("q" :> 113) @@ ("r" :> 114) @@ ("s" :> 115) @@ ("t" :> 116) @@
    ("u" :> 117) @@ ("v" :> 118) @@ ("w" :> 119) @@ ("x" :> 120) @@ ("y" :> 121) @@
    ("z" :> 122) @@ ("A" :> 65) @@ ("F" :> 70) @@ ("0" :> 48) @@ ("1" :> 49) @@
    ("2" :> 50) @@ ("3" :> 51) @@ ("9" :> 57) @@ ("." :> 46) @@ ("_" :> 95) @@
    ("-" :> 45) @@ ("/" :> 47) @@ ("*" :> 42) @@ ("+" :> 43) @@ ("|" :> 124)

\* The bytes of a text given as a tuple of one-character strings.
B(t) == [i \in 1..Len(t) |-> Code[t[i]]]

Min(S) == CHOOSE m \in S : \A n \in S : m <= n

RECURSIVE Concat(_)
Concat(ss) == IF ss = <<>> THEN <<>> ELSE Head(ss) \o Concat(Tail(ss))

StartsWith(s, p) == Len(s) >= Len(p) /\ SubSeq(s, 1, Len(p)) = p
EndsWith(s, p) == Len(s) >= Len(p) /\ SubSeq(s, Len(s) - Len(p) + 1, Len(s)) = p

\* String::from_utf8_lossy over the byte alphabets of this model, whose only
\* byte outside ASCII is 0xFF: that byte is never part of valid UTF-8.
FromUtf8Lossy(bytes) ==
    [i \in 1..Len(bytes) |-> IF bytes[i] < 128 THEN bytes[i] ELSE REPLACEMENT_CHARACTER]

\* std::str::from_utf8 succeeds (same alphabets).
IsUtf8(bytes) == \A i \in 1..Len(bytes) : bytes[i] < 128

(***************************************************************************)
(* Paths (std::path) and the file system (std::fs)                         *)
(***************************************************************************)
DOTDOT == <<DOT, DOT>>
MaxSymlinkHops == 3

\* Path::components of a path text: split at '/', empty and "." components dropped.
RECURSIVE Components(_)
Components(s) ==
    IF s = <<>> THEN <<>>
    ELSE LET cut == {i \in 1..Len(s) : s[i] = SLASH}
             end == IF cut = {} THEN Len(s) + 1 ELSE Min(cut)
             name == SubSeq(s, 1, end - 1)
             rest == Components(SubSeq(s, end + 1, Len(s)))
         IN IF name = <<>> \/ name = <<DOT>> THEN rest ELSE <<name>> \o rest

\* PathBuf::join(base, s): an absolute s replaces base.
Join(base, s) ==
    IF s # <<>> /\ s[1] = SLASH THEN Components(s) ELSE base \o Components(s)

\* The text names a directory to the operating system: it is empty or ends
\* in a separator or in a "." component.
NamesDirectory(s) ==
    \/ s = <<>>
    \/ s[Len(s)] = SLASH
    \/ s = <<DOT>>
    \/ EndsWith(s, <<SLASH, DOT>>)

\* Path::parent: the path without its last component.
Parent(p) == SubSeq(p, 1, Len(p) - 1)

\* A place no path resolves to: what a lookup that fails stands at.
NOWHERE == <<<<>>>>

\* The place the operating system resolves a path to: ".." steps up and a
\* symbolic link, also as the last component, is followed to its target; a
\* chain of more than `hops` links fails (ELOOP).
RECURSIVE Lookup(_, _, _)
Lookup(fsys, p, hops) ==
    IF p = <<>> THEN <<>>
    ELSE LET up == Lookup(fsys, Parent(p), hops)
             at == IF up = NOWHERE \/ up \notin fsys.dirs THEN NOWHERE
                   ELSE IF p[Len(p)] = DOTDOT THEN Parent(up)
                   ELSE Append(up, p[Len(p)])
         IN IF at \in DOMAIN fsys.links
            THEN IF hops = 0 THEN NOWHERE ELSE Lookup(fsys, fsys.links[at], hops - 1)
            ELSE at

Resolve(fsys, p) == Lookup(fsys, p, MaxSymlinkHops)

\* lstat's place: the last component is not followed.
ResolveNoFollow(fsys, p) ==
    IF p = <<>> THEN <<>>
    ELSE LET up == Resolve(fsys, Parent(p))
         IN IF up = NOWHERE \/ up \notin fsys.dirs THEN NOWHERE
            ELSE Append(up, p[Len(p)])

IsDir(fsys, p) == Resolve(fsys, p) \in fsys.dirs
IsFile(fsys, p) == Resolve(fsys, p) \in DOMAIN fsys.files
IsSymlink(fsys, p) == ResolveNoFollow(fsys, p) \in DOMAIN fsys.links

\* std::fs::create_dir_all(p): every prefix of p becomes a directory; it fails
\* when a prefix is a file.  [ok, fs]
RECURSIVE CreateDirAll(_, _)
CreateDirAll(fsys, p) ==
    IF p = <<>> \/ IsDir(fsys, p) THEN [ok |-> TRUE, fs |-> fsys]
    ELSE LET up == CreateDirAll(fsys, Parent(p))
         IN IF ~up.ok \/ IsFile(up.fs, p) \/ ~IsDir(up.fs, Parent(p))
            THEN [ok |-> FALSE, fs |-> up.fs]
            ELSE [ok |-> TRUE,
                  fs |-> [up.fs EXCEPT !.dirs = @ \cup {Resolve(up.fs, p)}]]

\* Writing `bytes` to the file at p (File::create, then the copy into it): it
\* fails when p is a directory or its parent is not one.  [ok, fs]
WriteFile(fsys, p, bytes) ==
    IF p = <<>> \/ IsDir(fsys, p) \/ ~IsDir(fsys, Parent(p))
    THEN [ok |-> FALSE, fs |-> fsys]
    ELSE [ok |-> TRUE,
          fs |-> [fsys EXCEPT !.files =
                     [q \in DOMAIN @ \cup {Resolve(fsys, p)} |->
                         IF q = Resolve(fsys, p) THEN bytes ELSE @[q]]]]

(***************************************************************************)
(* Readers (std::io)                                                       *)
(***************************************************************************)
\* BufRead::read_until(delim): the bytes from pos up to and including the
\* first delim, or up to the end of the source when there is none.
ReadUntil(buf, pos, delim) ==
    LET hit == {i \in pos..Len(buf) : buf[i] = delim}
    IN SubSeq(buf, pos, IF hit = {} THEN Len(buf) ELSE Min(hit))

\* Read::take(n) copied to its end: the next n bytes, or the fewer that are left.
Take(buf, pos, n) ==
    SubSeq(buf, pos, IF pos + n - 1 > Len(buf) THEN Len(buf) ELSE pos + n - 1)

\* u32::from_le_bytes
FromLeBytes(b) == b[1] + 256 * b[2] + 65536 * b[3] + 16777216 * b[4]

\* The three lines both read_entry functions end with: join the path to
\* out_dir, create its parent directories, create the file and copy `len`
\* bytes of the source into it.  [ok, fs, copied]
WriteEntry(fsys, out, path, buf, pos, len) ==
    LET text == FromUtf8Lossy(SubSeq(path, 1, Len(path) - 1))
        target == Join(out, text)
        made == IF target = <<>> THEN [ok |-> TRUE, fs |-> fsys]
                ELSE CreateDirAll(fsys, Parent(target))
        bytes == Take(buf, pos, len)
        wrote == WriteFile(made.fs, target, bytes)
    IN IF ~made.ok THEN [ok |-> FALSE, fs |-> made.fs, copied |-> 0, target |-> target]
       ELSE IF NamesDirectory(text) \/ ~wrote.ok
       THEN [ok |-> FALSE, fs |-> made.fs, copied |-> 0, target |-> target]
       ELSE [ok |-> TRUE, fs |-> wrote.fs, copied |-> Len(bytes), target |-> target]

(***************************************************************************)
(* The legacy container decoder                                            *)
(***************************************************************************)
\* parse_sv_packed_file's read_entry.  ret is "Ok(true)", "Ok(false)",
\* "UnexpectedEof" (read_exact found fewer than 4 bytes) or "IoError" (any
\* other std::io::Error).
SvReadEntry(fsys, out, rd) ==
    LET path == ReadUntil(rd.buf, rd.pos, NUL)
        p1 == rd.pos + Len(path)
        none == [path |-> path, lenfield |-> <<>>, len |-> 0, copied |-> 0,
                 target |-> <<>>, fs |-> fsys]
    IN IF path = <<>>
       THEN [ret |-> "Ok(true)", pos |-> p1] @@ none
       ELSE IF Len(rd.buf) - p1 + 1 < 4
       THEN [ret |-> "UnexpectedEof", pos |-> Len(rd.buf) + 1,
             lenfield |-> SubSeq(rd.buf, p1, Len(rd.buf))] @@ none
       ELSE LET field == SubSeq(rd.buf, p1, p1 + 3)
                len == FromLeBytes(field)
                w == WriteEntry(fsys, out, path, rd.buf, p1 + 4, len)
            IN [ret |-> IF w.ok THEN "Ok(false)" ELSE "IoError",
                pos |-> p1 + 4 + w.copied, path |-> path, lenfield |-> field,
                len |-> len, copied |-> w.copied, target |-> w.target, fs |-> w.fs]

(***************************************************************************)
(* The chunked container decoder                                           *)
(***************************************************************************)
\* char::to_digit(16)
IsHexDigit(b) == b \in 48..57 \/ b \in 65..70 \/ b \in 97..102
HexDigit(b) == IF b \in 48..57 THEN b - 48 ELSE IF b \in 65..70 THEN b - 55 ELSE b - 87

RECURSIVE HexValue(_)
HexValue(s) ==
    IF s = <<>> THEN 0 ELSE 16 * HexValue(SubSeq(s, 1, Len(s) - 1)) + HexDigit(s[Len(s)])

RECURSIVE StripZeros(_)
StripZeros(s) == IF s # <<>> /\ s[1] = 48 THEN StripZeros(Tail(s)) ELSE s

\* u32::from_str_radix(s, 16): an optional '+' and then at least one
\* hexadecimal digit, of a value below 2^32.  [ok, value]
FromStrRadix16(s) ==
    LET digits == IF s # <<>> /\ s[1] = PLUS THEN Tail(s) ELSE s
    IN IF digits = <<>> \/ (\E i \in 1..Len(digits) : ~IsHexDigit(digits[i]))
             \/ Len(StripZeros(digits)) > 8
       THEN [ok |-> FALSE, value |-> 0]
       ELSE [ok |-> TRUE, value |-> HexValue(StripZeros(digits))]

\* parse_packed_files' read_commented_file over a file's bytes, from pos on:
\* skip 2 bytes, read a line, until no line is left.  read_line fails
\* (InvalidData) on a line that is not UTF-8.  [ok, buf]
RECURSIVE ReadCommentedFrom(_, _)
ReadCommentedFrom(bytes, pos) ==
    LET line == ReadUntil(bytes, pos + 2, NEWLINE)
        rest == ReadCommentedFrom(bytes, pos + 2 + Len(line))
    IN IF line = <<>> THEN [ok |-> TRUE, buf |-> <<>>]
       ELSE IF ~IsUtf8(line) THEN [ok |-> FALSE, buf |-> <<>>]
       ELSE [ok |-> rest.ok, buf |-> line \o rest.buf]

ReadCommentedFile(bytes) == ReadCommentedFrom(bytes, 1)

\* Lines 240-243: the superchunk of a list of chunk files.  [ok, buf]
RECURSIVE Superchunk(_, _)
Superchunk(fsys, packed_files) ==
    IF packed_files = <<>> THEN [ok |-> TRUE, buf |-> <<>>]
    ELSE LET p == Head(packed_files)
             one == IF IsFile(fsys, p) THEN ReadCommentedFile(fsys.files[Resolve(fsys, p)])
                    ELSE [ok |-> FALSE, buf |-> <<>>]
             rest == Superchunk(fsys, Tail(packed_files))
         IN IF ~one.ok THEN one ELSE [ok |-> rest.ok, buf |-> one.buf \o rest.buf]

\* parse_packed_files' read_entry.  ret is "Ok(true)", "Ok(false)", "IoError",
\* "Utf8Error", "ParseIntError", or "panic": len[0..len.len()-1] on an empty
\* len underflows (a panic in a debug build) or, wrapped, is out of range (a
\* panic in a release build).
ChReadEntry(fsys, out, rd) ==
    LET path == ReadUntil(rd.buf, rd.pos, TERMINATOR_HACK)
        p1 == rd.pos + Len(path)
        field == ReadUntil(rd.buf, p1, TERMINATOR_HACK)
        p2 == p1 + Len(field)
        none == [path |-> path, lenfield |-> field, len |-> 0, copied |-> 0,
                 target |-> <<>>, fs |-> fsys]
    IN IF path = <<>>
       THEN [ret |-> "Ok(true)", pos |-> p1, lenfield |-> <<>>] @@ none
       ELSE IF field = <<>>
       THEN [ret |-> "panic", pos |-> p2] @@ none
       ELSE LET digits == SubSeq(field, 1, Len(field) - 1)
                n == FromStrRadix16(digits)
            IN IF ~IsUtf8(digits) THEN [ret |-> "Utf8Error", pos |-> p2] @@ none
               ELSE IF ~n.ok THEN [ret |-> "ParseIntError", pos |-> p2] @@ none
               ELSE LET w == WriteEntry(fsys, out, path, rd.buf, p2, n.value)
                    IN [ret |-> IF w.ok THEN "Ok(false)" ELSE "IoError",
                        pos |-> p2 + w.copied, path |-> path, lenfield |-> field,
                        len |-> n.value, copied |-> w.copied, target |-> w.target,
                        fs |-> w.fs]

(***************************************************************************)
(* Names and patterns                                                      *)
(***************************************************************************)
STAR == Code["*"]

\* GlobPattern over one file name: '*' stands for any run of characters.
RECURSIVE GlobName(_, _)
GlobName(pat, name) ==
    IF pat = <<>> THEN name = <<>>
    ELSE IF pat[1] = STAR
    THEN GlobName(Tail(pat), name) \/ (name # <<>> /\ GlobName(pat, Tail(name)))
    ELSE name # <<>> /\ name[1] = pat[1] /\ GlobName(Tail(pat), Tail(name))

\* GlobPattern::matches_path: component by component, '*' within a component.
MatchesPath(pattern, path) ==
    /\ Len(pattern) = Len(path)
    /\ \A i \in 1..Len(pattern) : GlobName(pattern[i], path[i])

LUA == B(<<"l", "u", "a">>)
GLUAPACK == B(<<"g", "l", "u", "a", "p", "a", "c", "k">>)
AUTORUN == B(<<"a", "u", "t", "o", "r", "u", "n">>)
LOADER_GLOB == <<AUTORUN, B(<<"*", "_", "g", "l", "u", "a", "p", "a", "c", "k", "_", "*", ".", "l", "u", "a">>)>>
CHUNK_FILE_GLOB == <<GLUAPACK, <<STAR>>, B(<<"*", ".", "l", "u", "a">>)>>
CHUNK_DIR_GLOB == <<GLUAPACK, <<STAR>>>>
GLUAPACK_DIR == <<GLUAPACK>>
GLUAPACK_SV_LUA == B(<<"g", "l", "u", "a", "p", "a", "c", "k", ".", "s", "v", ".", "l", "u", "a">>)
SH_LUA == B(<<".", "s", "h", ".", "l", "u", "a">>)
CL_LUA == B(<<".", "c", "l", ".", "l", "u", "a">>)
GLUAPACK_JSON == B(<<"g", "l", "u", "a", "p", "a", "c", "k", ".", "j", "s", "o", "n">>)
\* The patterns unpack globs for with no_copy, below dir.
DISCOVER_CHUNKS == <<LUA, GLUAPACK, <<STAR>>, B(<<"*", ".", "l", "u", "a">>)>>
DISCOVER_SV == <<LUA, GLUAPACK, AUTORUN, B(<<"*", "_", "g", "l", "u", "a", "p", "a", "c", "k", "_", "*", ".", "l", "u", "a">>)>>

\* Path::strip_prefix
HasPrefix(p, prefix) == Len(p) >= Len(prefix) /\ SubSeq(p, 1, Len(prefix)) = prefix
StripPrefix(p, prefix) == SubSeq(p, Len(prefix) + 1, Len(p))

\* Every path the file system holds something at.
Nodes(fsys) == fsys.dirs \cup DOMAIN fsys.files \cup DOMAIN fsys.links

\* read_dir: the names in directory d.
ReadDir(fsys, d) ==
    LET at == Resolve(fsys, d)
    IN {q[Len(q)] : q \in {n \in Nodes(fsys) : n # <<>> /\ Parent(n) = at}}

\* Byte-wise order of names, and the order of paths name by name.
RECURSIVE LessName(_, _)
LessName(a, b) ==
    IF a = <<>> THEN b # <<>>
    ELSE IF b = <<>> THEN FALSE
    ELSE IF a[1] = b[1] THEN LessName(Tail(a), Tail(b))
    ELSE a[1] < b[1]

RECURSIVE Less(_, _)
Less(a, b) ==
    IF a = <<>> THEN b # <<>>
    ELSE IF b = <<>> THEN FALSE
    ELSE IF a[1] = b[1] THEN Less(Tail(a), Tail(b))
    ELSE LessName(a[1], b[1])

RECURSIVE Sorted(_)
Sorted(S) ==
    IF S = {} THEN <<>>
    ELSE LET m == CHOOSE x \in S : \A y \in S \ {x} : Less(x, y)
         IN <<m>> \o Sorted(S \ {m})

\* util::glob(base/pattern): the paths below base that match, in the glob
\* crate's alphabetical order.
Glob(fsys, base, pattern) ==
    Sorted({n \in Nodes(fsys) : HasPrefix(n, base)
                                /\ MatchesPath(pattern, StripPrefix(n, base))})

(***************************************************************************)
(* The tree copier                                                         *)
(***************************************************************************)
DIR == <<B(<<"i", "n">>)>>
OUT == <<B(<<"o", "u", "t">>)>>

\* One pass of the loop of the inner copy_addon (lines 97-163) over the
\* directory entry `name` of `from`.  kind is "continue" (the next entry),
\* "recurse" (into from/to below), "error" (an io::Error leaves by `?`) or
\* "panic" (file_name() is None, or the debug assertion fails in a build with
\* debug assertions, `debug`).
CopyEntryStep(fsys, visited, sv, cl, sh, lua_folder, from, to, name, debug) ==
    LET dpath == Append(from, name)
        symlink == IsSymlink(fsys, dpath)
        entry == IF symlink THEN fsys.links[ResolveNoFollow(fsys, dpath)] ELSE dpath
        seen == IF symlink THEN visited \cup {dpath} ELSE visited
        next == [kind |-> "continue", fs |-> fsys, visited |-> seen, sv |-> sv,
                 cl |-> cl, sh |-> sh, from |-> <<>>, to |-> <<>>]
    IN IF symlink /\ dpath \in visited THEN next
       ELSE IF entry = <<>> \/ entry[Len(entry)] = DOTDOT
       THEN [next EXCEPT !.kind = "panic"]
       ELSE
       LET file_name == entry[Len(entry)]
           in_lua == HasPrefix(entry, lua_folder)
           lua_relative == StripPrefix(entry, lua_folder)
           is_dir == IsDir(fsys, entry)
           loader == in_lua /\ ~is_dir /\ MatchesPath(LOADER_GLOB, lua_relative)
           chunk == in_lua /\ ~is_dir /\ ~loader
                    /\ MatchesPath(CHUNK_FILE_GLOB, lua_relative)
           skip_copy == in_lua /\ is_dir
                        /\ (lua_relative = GLUAPACK_DIR
                            \/ MatchesPath(CHUNK_DIR_GLOB, lua_relative))
           dest == Append(to, file_name)
       IN IF loader THEN next
          ELSE IF chunk
          THEN IF file_name = GLUAPACK_SV_LUA
               THEN IF sv # <<>> /\ debug THEN [next EXCEPT !.kind = "panic"]
                    ELSE [next EXCEPT !.sv = <<entry>>]
               ELSE IF EndsWith(file_name, SH_LUA) THEN [next EXCEPT !.sh = Append(sh, entry)]
               ELSE IF EndsWith(file_name, CL_LUA) THEN [next EXCEPT !.cl = Append(cl, entry)]
               ELSE next
          ELSE IF StartsWith(file_name, <<DOT>>) \/ file_name = GLUAPACK_JSON THEN next
          ELSE IF is_dir
          THEN LET made == IF skip_copy THEN [ok |-> TRUE, fs |-> fsys]
                           ELSE CreateDirAll(fsys, dest)
               IN IF made.ok
                  THEN [next EXCEPT !.kind = "recurse", !.fs = made.fs,
                                    !.from = entry, !.to = dest]
                  ELSE [next EXCEPT !.kind = "error", !.fs = made.fs]
          ELSE IF IsFile(fsys, entry) /\ ~skip_copy
          THEN LET wrote == WriteFile(fsys, dest, fsys.files[Resolve(fsys, entry)])
               IN IF wrote.ok THEN [next EXCEPT !.fs = wrote.fs]
                  ELSE [next EXCEPT !.kind = "error"]
          ELSE next

(***************************************************************************)
(* Unpacker::unpack                                                        *)
(***************************************************************************)
Running == [tag |-> "running"]
\* unpack's state, had a failing phase been skipped instead of returned.
FailedAndSkipped(kind) == Running

\* `?` on an Err (lines 64, 78, 82, 85): unpack returns the error.
Failed(kind) == [tag |-> kind]

\* The errors a phase of unpack can fail with.
Errors == {"IoError", "Utf8Error", "ParseIntError"}
NoEntry == [fn |-> "none", ret |-> "none", from |-> 0, pos |-> 0, path |-> <<>>,
            lenfield |-> <<>>, len |-> 0, copied |-> 0, target |-> <<>>]

\* Lines 70-75: the chunk files, and one more for the legacy file.
TotalPackedFiles(sv, cl, sh) == Len(cl) + Len(sh) + (IF sv # <<>> THEN 1 ELSE 0)

\* unpack's Ok value, had line 87 returned total_packed_files as counted.
ReturnedAsCounted(unpacked, packed) == [tag |-> "Ok", files |-> unpacked, packed |-> packed]

\* Line 87: unpack's Ok value.
Returned(unpacked, packed) == [tag |-> "Ok", files |-> unpacked, packed |-> packed + 2]

\* Lines 67-79, with what discovery found: on to the legacy decoder when
\* there is a legacy file, else to the client-side chunks.
Discovered(sv, cl, sh) ==
    /\ sv_packed_file' = sv
    /\ cl_chunk_files' = cl
    /\ sh_chunk_files' = sh
    /\ out_dir' = Append(out_dir, LUA)
    /\ total_packed_files' = TotalPackedFiles(sv, cl, sh)
    /\ total_unpacked_files' = 0
    /\ pc' = IF sv # <<>> THEN "sv" ELSE "cl"

\* A path list filtered by the suffix of the file name, order kept.
RECURSIVE WithSuffix(_, _)
WithSuffix(paths, suffix) ==
    IF paths = <<>> THEN <<>>
    ELSE LET q == Head(paths)
         IN (IF EndsWith(q[Len(q)], suffix) THEN <<q>> ELSE <<>>)
            \o WithSuffix(Tail(paths), suffix)

\* Lines 41-59: discovery by globbing, with no_copy.
Discover ==
    /\ pc = "start" /\ no_copy
    /\ \E found \in {Glob(fs, DIR, DISCOVER_CHUNKS)}, sv \in {Glob(fs, DIR, DISCOVER_SV)} :
          Discovered(IF sv = <<>> THEN <<>> ELSE <<Head(sv)>>,
                     WithSuffix(found, CL_LUA), WithSuffix(found, SH_LUA))
    /\ UNCHANGED <<fs, no_copy, stack, visited_symlinks, f, entries, result, last>>

\* Lines 60-64, 90-91, 167-172: the copy starts at dir, into out_dir.
CopyAddon ==
    /\ pc = "start" /\ ~no_copy
    /\ \E made \in {CreateDirAll(fs, out_dir)} :
          /\ fs' = made.fs
          /\ IF made.ok /\ IsDir(fs, DIR)
             THEN /\ pc' = "copy"
                  /\ stack' = <<[from |-> DIR, to |-> out_dir, todo |-> ReadDir(fs, DIR)]>>
                  /\ result' = result
             ELSE /\ pc' = "done"
                  /\ stack' = stack
                  /\ result' = Failed("IoError")
    /\ UNCHANGED <<no_copy, out_dir, visited_symlinks, sv_packed_file, cl_chunk_files,
                   sh_chunk_files, f, entries, total_unpacked_files,
                   total_packed_files, last>>

\* Lines 97-163: the innermost running copy_addon handles one directory entry.
CopyEntry ==
    /\ pc = "copy" /\ stack # <<>>
    /\ LET top == stack[Len(stack)]
       IN \E name \in top.todo,
             debug \in IF sv_packed_file = <<>> THEN {TRUE} ELSE BOOLEAN :
            \E r \in {CopyEntryStep(fs, visited_symlinks, sv_packed_file, cl_chunk_files,
                                    sh_chunk_files, Append(DIR, LUA), top.from, top.to,
                                    name, debug)},
               rest \in {[stack EXCEPT ![Len(stack)].todo = @ \ {name}]} :
               /\ fs' = r.fs
               /\ visited_symlinks' = r.visited
               /\ sv_packed_file' = r.sv
               /\ cl_chunk_files' = r.cl
               /\ sh_chunk_files' = r.sh
               /\ stack' = IF r.kind = "recurse"
                           THEN Append(rest, [from |-> r.from, to |-> r.to,
                                              todo |-> ReadDir(fs, r.from)])
                           ELSE rest
               /\ pc' = IF r.kind \in {"error", "panic"} THEN "done" ELSE "copy"
               /\ result' = IF r.kind = "error" THEN Failed("IoError")
                            ELSE IF r.kind = "panic" THEN Failed("panic")
                            ELSE result
    /\ UNCHANGED <<no_copy, out_dir, f, entries, total_unpacked_files,
                   total_packed_files, last>>

\* Line 164: a copy_addon whose directory is read to its end returns to its
\* caller.
CopyReturn ==
    /\ pc = "copy" /\ Len(stack) > 1 /\ stack[Len(stack)].todo = {}
    /\ stack' = SubSeq(stack, 1, Len(stack) - 1)
    /\ UNCHANGED <<fs, pc, no_copy, out_dir, visited_symlinks, sv_packed_file,
                   cl_chunk_files, sh_chunk_files, f, entries, total_unpacked_files,
                   total_packed_files, result, last>>

\* Lines 164, 174, 64: the outermost copy_addon returns what it collected.
CopyDone ==
    /\ pc = "copy" /\ Len(stack) = 1 /\ stack[1].todo = {}
    /\ stack' = <<>>
    /\ Discovered(sv_packed_file, cl_chunk_files, sh_chunk_files)
    /\ UNCHANGED <<fs, no_copy, visited_symlinks, f, entries, result, last>>

\* The reader, had each read_entry call started where the one before did.
AdvanceNowhere(rd, r) == rd

\* Lines 183-216, 245-282: read_entry reads through the one reader `f`,
\* which stands after a call where the call's reads ended.
Advance(rd, r) == [rd EXCEPT !.pos = r.pos]

\* What a read_entry call did, as `last` keeps it.
Called(fn, rd, r) ==
    [fn |-> fn, ret |-> r.ret, from |-> rd.pos, pos |-> r.pos, path |-> r.path,
     lenfield |-> r.lenfield, len |-> r.len, copied |-> r.copied, target |-> r.target]

\* Lines 177-182: parse_sv_packed_file opens the legacy file.
SvOpen ==
    /\ pc = "sv"
    /\ entries' = 0
    /\ LET p == sv_packed_file[1]
       IN IF IsFile(fs, p)
          THEN /\ f' = [buf |-> fs.files[Resolve(fs, p)], pos |-> 1]
               /\ pc' = "sv_loop"
               /\ result' = result
          ELSE /\ f' = f
               /\ pc' = "done"
               /\ result' = Failed("IoError")
    /\ UNCHANGED <<fs, no_copy, out_dir, stack, visited_symlinks, sv_packed_file,
                   cl_chunk_files, sh_chunk_files, total_unpacked_files,
                   total_packed_files, last>>

\* Lines 206-218 and 78: one pass of parse_sv_packed_file's loop; when the
\* loop breaks, unpack adds the count and goes on to the client-side chunks.
SvLoop ==
    /\ pc = "sv_loop"
    /\ \E r \in {SvReadEntry(fs, out_dir, f)} :
          /\ last' = Called("sv", f, r)
          /\ fs' = r.fs
          /\ f' = Advance(f, r)
          /\ entries' = IF r.ret = "Ok(false)" THEN entries + 1 ELSE entries
          /\ pc' = IF r.ret = "Ok(false)" THEN "sv_loop"
                   ELSE IF r.ret \in {"Ok(true)", "UnexpectedEof"} THEN "cl"
                   ELSE "done"
          /\ total_unpacked_files' =
                IF r.ret \in {"Ok(true)", "UnexpectedEof"}
                THEN total_unpacked_files + entries ELSE total_unpacked_files
          /\ result' = IF r.ret = "IoError" THEN Failed("IoError") ELSE result
    /\ UNCHANGED <<no_copy, out_dir, stack, visited_symlinks, sv_packed_file,
                   cl_chunk_files, sh_chunk_files, total_packed_files>>

\* The chunk list parse_packed_files would run over at pc, had unpack
\* decoded the shared chunks before the client-side ones.
PackedFilesSharedFirst ==
    IF pc \in {"cl", "cl_loop"} THEN sh_chunk_files ELSE cl_chunk_files

\* The chunk list parse_packed_files runs over at pc.
PackedFiles == IF pc \in {"cl", "cl_loop"} THEN cl_chunk_files ELSE sh_chunk_files

\* Lines 221-243 and 270: parse_packed_files builds the superchunk.
ChRead ==
    /\ pc \in {"cl", "sh"}
    /\ entries' = 0
    /\ \E sc \in {Superchunk(fs, PackedFiles)} :
          IF sc.ok
          THEN /\ f' = [buf |-> sc.buf, pos |-> 1]
               /\ pc' = IF pc = "cl" THEN "cl_loop" ELSE "sh_loop"
               /\ result' = result
          ELSE /\ f' = f
               /\ pc' = "done"
               /\ result' = Failed("IoError")
    /\ UNCHANGED <<fs, no_copy, out_dir, stack, visited_symlinks, sv_packed_file,
                   cl_chunk_files, sh_chunk_files, total_unpacked_files,
                   total_packed_files, last>>

\* Lines 271-284 and 82-87: one pass of parse_packed_files' loop; when the
\* loop breaks, unpack adds the count and goes on to the shared chunks or
\* returns.
ChLoop ==
    /\ pc \in {"cl_loop", "sh_loop"}
    /\ \E r \in {ChReadEntry(fs, out_dir, f)} :
       \E more \in {r.ret = "Ok(false)"}, break \in {r.ret = "Ok(true)"},
          sum \in {total_unpacked_files + entries} :
          /\ last' = Called(IF pc = "cl_loop" THEN "cl" ELSE "sh", f, r)
          /\ fs' = r.fs
          /\ f' = Advance(f, r)
          /\ entries' = IF more THEN entries + 1 ELSE entries
          /\ pc' = IF more THEN pc
                   ELSE IF break /\ pc = "cl_loop" THEN "sh"
                   ELSE "done"
          /\ total_unpacked_files' = IF break THEN sum ELSE total_unpacked_files
          /\ result' = IF more \/ (break /\ pc = "cl_loop") THEN result
                       ELSE IF break THEN Returned(sum, total_packed_files)
                       ELSE Failed(r.ret)
    /\ UNCHANGED <<no_copy, out_dir, stack, visited_symlinks, sv_packed_file,
                   cl_chunk_files, sh_chunk_files, total_packed_files>>

(***************************************************************************)
(* Inputs                                                                  *)
(***************************************************************************)
MaxRawLen == 6
MaxEntries == 2

\* All byte strings over an alphabet, up to a length.
Strings(alphabet, n) == UNION {[1..k -> alphabet] : k \in 0..n}

\* All lists of up to n members of S.
Lists(S, n) == UNION {[1..k -> S] : k \in 0..n}

HexChar(d) == IF d < 10 THEN 48 + d ELSE 55 + d

\* A number as upper-case hexadecimal digits, as a packer writes a length.
RECURSIVE ToHex(_)
ToHex(n) == IF n < 16 THEN <<HexChar(n)>> ELSE Append(ToHex(n \div 16), HexChar(n % 16))

\* u32::to_le_bytes
ToLeBytes(n) ==
    <<n % 256, (n \div 256) % 256, (n \div 65536) % 256, (n \div 16777216) % 256>>

\* The legacy layout of an entry list: (path, 0x00, u32 little-endian length, payload)*
RECURSIVE EncodeSv(_)
EncodeSv(es) ==
    IF es = <<>> THEN <<>>
    ELSE Head(es).path \o <<NUL>> \o ToLeBytes(Len(Head(es).payload))
         \o Head(es).payload \o EncodeSv(Tail(es))

\* The chunked layout of a record list whose length fields are given as
\* text: (path, TERM, length field, TERM, payload)*
RECURSIVE EncodeCh(_)
EncodeCh(rs) ==
    IF rs = <<>> THEN <<>>
    ELSE Head(rs).path \o <<TERMINATOR_HACK>> \o Head(rs).field \o <<TERMINATOR_HACK>>
         \o Head(rs).payload \o EncodeCh(Tail(rs))

\* A superchunk as the text of a chunk file: the 2-byte marker "--" before
\* every line.
RECURSIVE Commented(_)
Commented(sc) ==
    IF sc = <<>> THEN <<>>
    ELSE LET line == ReadUntil(sc, 1, NEWLINE)
         IN B(<<"-", "-">>) \o line \o Commented(SubSeq(sc, Len(line) + 1, Len(sc)))

Paths == {B(<<"a">>), B(<<"b">>), B(<<"a", "/", "b">>)}
\* Entry paths that step out of the folder they are joined to: by a
\* parent-directory component, and by a leading separator.
OddPaths == {B(<<".", ".", "/", "a">>), B(<<"/", "a">>)}
SvPayloads == {<<>>, <<NUL>>, B(<<"a">>), <<NUL, 97>>}
ChPayloads == {<<>>, <<TERMINATOR_HACK>>, B(<<"a">>), <<NEWLINE, 97>>, <<255>>}

\* Payloads that end their line.
LinePayloads == {<<97, NEWLINE>>, <<255, NEWLINE>>}

\* Entries as a packer holds them.
SvEntries == [path : Paths, payload : SvPayloads]
ChEntries == [path : Paths, payload : ChPayloads]

\* A chunked record of an entry, its length written by `ToHex`.
Record(e) == [path |-> e.path, field |-> ToHex(Len(e.payload)), payload |-> e.payload]

\* Length fields a conforming packer does not write.
OddFields == {<<>>, B(<<"+", "1">>), B(<<"+">>), B(<<"-", "1">>), B(<<"g">>), B(<<"1", "g">>), B(<<"0", "A">>), B(<<"f", "f">>), B(<<"0", "0", "0", "0", "0", "0", "0", "1">>),
              B(<<"1", "0", "0", "0", "0", "0", "0", "0", "0">>), <<255>>}
OddRecords == [path : {B(<<"a">>)}, field : OddFields, payload : {B(<<"a">>)}]

SvAlphabet == {NUL, 1, SLASH, 97}
ChAlphabet == {TERMINATOR_HACK, 49, PLUS, 103}

\* The bytes of a legacy file: every short byte string, and the layouts of
\* short entry lists.
SvInputs ==
    Strings(SvAlphabet, MaxRawLen) \cup {EncodeSv(es) : es \in Lists(SvEntries, MaxEntries)}
    \cup {EncodeSv(<<e>>) : e \in [path : OddPaths, payload : {B(<<"a">>)}]}

HASH == B(<<"h">>)
SV_FILE == DIR \o <<LUA, GLUAPACK, HASH, GLUAPACK_SV_LUA>>
CL_FILES == <<DIR \o <<LUA, GLUAPACK, HASH, B(<<"a", ".", "c", "l", ".", "l", "u", "a">>)>>,
              DIR \o <<LUA, GLUAPACK, HASH, B(<<"c", ".", "c", "l", ".", "l", "u", "a">>)>>>>
SH_FILE == DIR \o <<LUA, GLUAPACK, HASH, B(<<"b", ".", "s", "h", ".", "l", "u", "a">>)>>

\* The superchunks: every short byte string, and the layouts of short
\* record lists.
ChRecordLists == Lists({Record(e) : e \in ChEntries} \cup OddRecords, MaxEntries)
ChInputs(lists) ==
    {<<Commented(sc)>> : sc \in Strings(ChAlphabet, MaxRawLen)}
    \cup {<<Commented(EncodeCh(rs))>> : rs \in lists}
    \cup {[i \in 1..Len(rs) |-> Commented(EncodeCh(<<rs[i]>>))] :
              rs \in {l \in lists : Len(l) <= Len(CL_FILES)}}
    \cup {<<Commented(EncodeCh(<<Record(e)>>))>> :
              e \in [path : {B(<<"a">>)}, payload : LinePayloads]}

\* Every prefix of every path of S: the directories that hold S.
Ancestors(S) == UNION {{SubSeq(q, 1, k) : k \in 0..(Len(q) - 1)} : q \in S}

\* A file system of the given files (path :> bytes), the directories that
\* hold them, and the given further directories.
FsOf(files, dirs) ==
    [dirs |-> Ancestors(DOMAIN files \cup dirs) \cup dirs,
     files |-> files, links |-> <<>>]

(***************************************************************************)
(* The legacy decoder alone: unpack stands before parse_sv_packed_file,    *)
(* the tree copied, over a legacy file of any bytes of SvInputs.           *)
(***************************************************************************)
InitSvOver(inputs) ==
    /\ \E bytes \in inputs :
          fs = FsOf(SV_FILE :> bytes, {Append(OUT, LUA)})
    /\ pc = "sv"
    /\ no_copy = FALSE
    /\ out_dir = Append(OUT, LUA)
    /\ stack = <<>>
    /\ visited_symlinks = {}
    /\ sv_packed_file = <<SV_FILE>>
    /\ cl_chunk_files = <<>>
    /\ sh_chunk_files = <<>>
    /\ f = [buf |-> <<>>, pos |-> 1]
    /\ entries = 0
    /\ total_unpacked_files = 0
    /\ total_packed_files = 1
    /\ result = Running
    /\ last = NoEntry

InitSv == InitSvOver(SvInputs)

NextSv == SvOpen \/ SvLoop

SpecSv == InitSv /\ [][NextSv]_vars

(***************************************************************************)
(* The chunked decoder alone: unpack stands before parse_packed_files of   *)
(* the client-side list, over chunk files of ChInputs.                     *)
(***************************************************************************)
InitChOver(inputs) ==
    /\ \E texts \in inputs :
          /\ fs = FsOf([q \in {CL_FILES[i] : i \in 1..Len(texts)} |->
                          texts[CHOOSE i \in 1..Len(texts) : CL_FILES[i] = q]],
                       {Append(OUT, LUA)})
          /\ cl_chunk_files = SubSeq(CL_FILES, 1, Len(texts))
    /\ pc = "cl"
    /\ no_copy = FALSE
    /\ out_dir = Append(OUT, LUA)
    /\ stack = <<>>
    /\ visited_symlinks = {}
    /\ sv_packed_file = <<>>
    /\ sh_chunk_files = <<>>
    /\ f = [buf |-> <<>>, pos |-> 1]
    /\ entries = 0
    /\ total_unpacked_files = 0
    /\ total_packed_files = Len(cl_chunk_files)
    /\ result = Running
    /\ last = NoEntry

InitCh == InitChOver(ChInputs(ChRecordLists))

NextCh == ChRead \/ ChLoop

SpecCh == InitCh /\ [][NextCh]_vars

(***************************************************************************)
(* Both decoders: unpack stands before the legacy decoder or before the    *)
(* client-side decoder, over every short byte string and the layouts of    *)
(* short lists of a few entries and records, and runs to its end.          *)
(***************************************************************************)
DecEntries == [path : {B(<<"a">>), B(<<"a", "/", "b">>)}, payload : {<<>>, B(<<"a">>)}]
DecRecords ==
    {Record(e) : e \in DecEntries}
    \cup [path : {B(<<"a">>)}, field : {<<>>, B(<<"g">>), <<255>>}, payload : {B(<<"a">>)}]
DecSvInputs ==
    Strings(SvAlphabet, MaxRawLen) \cup {EncodeSv(es) : es \in Lists(DecEntries, MaxEntries)}
DecChInputs ==
    {<<Commented(sc)>> : sc \in Strings(ChAlphabet, MaxRawLen)}
    \cup {<<Commented(EncodeCh(rs))>> : rs \in Lists(DecRecords, MaxEntries)}

InitDec == InitSvOver(DecSvInputs) \/ InitChOver(DecChInputs)

NextDec == SvOpen \/ SvLoop \/ ChRead \/ ChLoop

SpecDec == InitDec /\ [][NextDec]_vars

(***************************************************************************)
(* The whole of unpack, over source trees made of the optional members     *)
(* below: with no_copy in place, otherwise into the empty OUT.             *)
(***************************************************************************)
ADDON_TXT == DIR \o <<B(<<"a", "d", "d", "o", "n", ".", "t", "x", "t">>)>>
DOT_GIT_CONFIG == DIR \o <<B(<<".", "g", "i", "t">>), B(<<"c", "o", "n", "f", "i", "g">>)>>
MANIFEST == DIR \o <<GLUAPACK_JSON>>
LOADER == DIR \o <<LUA, AUTORUN, B(<<"x", "_", "g", "l", "u", "a", "p", "a", "c", "k", "_", "y", ".", "l", "u", "a">>)>>
INIT_LUA == DIR \o <<LUA, AUTORUN, B(<<"i", "n", "i", "t", ".", "l", "u", "a">>)>>
README == DIR \o <<LUA, GLUAPACK, HASH, B(<<"r", "e", "a", "d", "m", "e", ".", "t", "x", "t">>)>>
PACKED_LOADER == DIR \o <<LUA, GLUAPACK, AUTORUN, B(<<"l", "_", "g", "l", "u", "a", "p", "a", "c", "k", "_", "l", ".", "l", "u", "a">>)>>

\* A second legacy file, in a packaging subfolder of its own, whose first
\* entry has the empty path; and a third client-side chunk file, whose
\* length field is no number.
SV_FILE_TOO == DIR \o <<LUA, GLUAPACK, B(<<"g">>), GLUAPACK_SV_LUA>>
ODD_CL_FILE == DIR \o <<LUA, GLUAPACK, HASH, B(<<"d", ".", "c", "l", ".", "l", "u", "a">>)>>

\* What each optional file of a source tree holds.
TreeFiles ==
    (ADDON_TXT :> B(<<"a">>)) @@ (DOT_GIT_CONFIG :> B(<<"a">>)) @@ (MANIFEST :> B(<<"a">>))
    @@ (LOADER :> B(<<"a">>)) @@ (INIT_LUA :> B(<<"a">>)) @@ (README :> B(<<"a">>))
    @@ (PACKED_LOADER :> B(<<"a">>))
    @@ (SV_FILE :> EncodeSv(<<[path |-> B(<<"a">>), payload |-> B(<<"a">>)]>>))
    @@ (CL_FILES[1] :> Commented(EncodeCh(<<Record([path |-> B(<<"b">>), payload |-> B(<<"a">>)])>>)))
    @@ (CL_FILES[2] :> Commented(EncodeCh(<<Record([path |-> B(<<"a", "/", "b">>), payload |-> <<>>])>>)))
    @@ (SH_FILE :> Commented(EncodeCh(<<Record([path |-> B(<<"c">>), payload |-> B(<<"a">>)])>>)))
    @@ (SV_FILE_TOO :> EncodeSv(<<[path |-> <<>>, payload |-> <<>>]>>))
    @@ (ODD_CL_FILE :> Commented(EncodeCh(<<[path |-> B(<<"d">>), field |-> B(<<"g">>), payload |-> <<>>]>>)))

\* The members a tree has or lacks one by one, and those it has or lacks
\* together.
Containers ==
    {SV_FILE, CL_FILES[1], CL_FILES[2], SH_FILE, README, PACKED_LOADER, SV_FILE_TOO,
     ODD_CL_FILE}
Others == {ADDON_TXT, DOT_GIT_CONFIG, MANIFEST, LOADER, INIT_LUA}

Init ==
    /\ \E some \in SUBSET Containers, rest \in {{}, Others} :
          fs = FsOf([q \in some \cup rest |-> TreeFiles[q]], {DIR \o <<LUA>>})
    /\ no_copy \in BOOLEAN
    /\ out_dir = IF no_copy THEN DIR ELSE OUT
    /\ pc = "start"
    /\ stack = <<>>
    /\ visited_symlinks = {}
    /\ sv_packed_file = <<>>
    /\ cl_chunk_files = <<>>
    /\ sh_chunk_files = <<>>
    /\ f = [buf |-> <<>>, pos |-> 1]
    /\ entries = 0
    /\ total_unpacked_files = 0
    /\ total_packed_files = 0
    /\ result = Running
    /\ last = NoEntry

Next ==
    \/ Discover
    \/ CopyAddon
    \/ CopyEntry
    \/ CopyReturn
    \/ CopyDone
    \/ SvOpen
    \/ SvLoop
    \/ ChRead
    \/ ChLoop

Spec == Init /\ [][Next]_vars


(***************************************************************************)
(* Properties of the legacy decoder (SpecSv)                               *)
(***************************************************************************)
\* The read_entry call `last` records read a path field of at least one byte
\* before its 0x00 terminator.
SvPathRead ==
    /\ last.fn = "sv"
    /\ Len(last.path) >= 2
    /\ last.path[Len(last.path)] = NUL

\* C1: when the legacy file ends inside the 4-byte length field (a non-empty
\* path and its 0x00 were read, fewer than 4 bytes follow), the decode
\* returns a fatal error; it does not end normally.
C1_EofInLengthFieldIsFatal ==
    (SvPathRead /\ Len(f.buf) - (last.from + Len(last.path)) + 1 < 4)
        => (pc = "done" /\ result.tag = "IoError")

\* C2: every file a read_entry call wrote and counted as an entry holds
\* exactly as many bytes as the entry's length field declares; a source with
\* fewer payload bytes is an error, never a counted shorter file.
C2_WrittenLengthIsDeclaredLength ==
    last.ret = "Ok(false)"
        => /\ IsFile(fs, last.target)
           /\ Len(fs.files[Resolve(fs, last.target)]) = last.len

\* C6: when read_entry reads an empty path field (the terminator alone) where
\* an entry starts, the decode ends normally there: no length field is read
\* and no file is written for the bytes that follow, whatever they are.
C6_EmptyPathEndsTheStream ==
    (last.fn = "sv" /\ last.path = <<NUL>>)
        => /\ pc = "cl" /\ result = Running
           /\ last.target = <<>>

\* C17: every file the legacy decoder creates, and every directory it
\* creates, lies below the output's lua folder.
C17_OutputStaysBelowLua ==
    /\ \A q \in DOMAIN fs.files \ {SV_FILE} : HasPrefix(q, Append(OUT, LUA))
    /\ \A d \in fs.dirs : \/ HasPrefix(d, Append(OUT, LUA))
                           \/ HasPrefix(Append(OUT, LUA), d)
                           \/ HasPrefix(SV_FILE, d)

(***************************************************************************)
(* Properties of the chunked decoder (SpecCh)                              *)
(***************************************************************************)
\* The chunked records of an entry list.
RecordsOf(es) == [i \in 1..Len(es) |-> Record(es[i])]

\* No entry's path is another entry's path or a directory above it.
PrefixFree(es) ==
    \A i, j \in 1..Len(es) :
        i # j => ~HasPrefix(Components(es[j].path), Components(es[i].path))

\* The files below the output's lua folder.
Outputs == {q \in DOMAIN fs.files : HasPrefix(q, Append(OUT, LUA))}

\* C4: decoding the chunked layout of any entry list with distinct non-empty
\* paths yields one output file per entry, at out_dir/path and with the
\* entry's bytes, and a count equal to the number of entries.
C4_ChunkedRoundTrip ==
    (pc = "done" /\ cl_chunk_files = <<CL_FILES[1]>>)
        => \A es \in Lists(ChEntries, MaxEntries) :
              (PrefixFree(es)
               /\ fs.files[CL_FILES[1]] = Commented(EncodeCh(RecordsOf(es))))
              => /\ result.tag = "Ok"
                 /\ result.files = Len(es)
                 /\ Outputs = {Join(Append(OUT, LUA), es[i].path) : i \in 1..Len(es)}
                 /\ \A i \in 1..Len(es) :
                       fs.files[Join(Append(OUT, LUA), es[i].path)] = es[i].payload

\* C5: decoding a container that holds the sentinel alone (an empty path
\* field, its terminator, nothing else) returns zero entries and no error and
\* writes no file.
C5_SentinelAloneDecodesToNothing ==
    (last.fn = "cl" /\ f.buf = <<TERMINATOR_HACK>>)
        => /\ pc = "sh"
           /\ total_unpacked_files = 0
           /\ Outputs = {}

\* The read_entry call `last` records found the superchunk ending inside the
\* path field or inside the length field.
EndsInsideField ==
    /\ last.fn \in {"cl", "sh"}
    /\ last.path # <<>>
    /\ \/ last.path[Len(last.path)] # TERMINATOR_HACK
       \/ last.lenfield = <<>>
       \/ last.lenfield[Len(last.lenfield)] # TERMINATOR_HACK

\* C7: a superchunk that ends inside a path field or a length field ends the
\* decode with a typed fatal error: no panic, and no entry parsed from the
\* shortened field.
C7_EndInsideFieldIsTypedError ==
    EndsInsideField
        => /\ last.ret \in {"IoError", "Utf8Error", "ParseIntError"}
           /\ pc = "done" /\ result.tag = last.ret

\* The text of the length field the read_entry call `last` records read.
LenText == SubSeq(last.lenfield, 1, Len(last.lenfield) - 1)
\* That call read a non-empty path and a complete length field that is text.
LenTextRead ==
    /\ last.fn \in {"cl", "sh"}
    /\ Len(last.path) >= 2
    /\ last.path[Len(last.path)] = TERMINATOR_HACK
    /\ last.lenfield # <<>>
    /\ last.lenfield[Len(last.lenfield)] = TERMINATOR_HACK
    /\ IsUtf8(LenText)

\* C8: a length field with any character that is no hexadecimal digit fails
\* with ParseIntError and writes no file; a length field of hexadecimal
\* digits only, in any case and zero padding, of a 32-bit value, parses to
\* that value.
C8_HexLengthField ==
    LenTextRead
        => IF \E i \in 1..Len(LenText) : ~IsHexDigit(LenText[i])
           THEN last.ret = "ParseIntError" /\ last.target = <<>>
           ELSE (LenText # <<>> /\ Len(StripZeros(LenText)) <= 8)
                => /\ last.ret \in {"Ok(false)", "IoError"}
                   /\ last.len = HexValue(StripZeros(LenText))

\* A chunk file built from lines that each start with the 2-byte marker and
\* go on with a fragment that ends in its line terminator.
RECURSIVE MarkedLines(_)
MarkedLines(text) ==
    \/ text = <<>>
    \/ /\ Len(ReadUntil(text, 1, NEWLINE)) >= 3
       /\ StartsWith(text, B(<<"-", "-">>))
       /\ text[Len(ReadUntil(text, 1, NEWLINE))] = NEWLINE
       /\ MarkedLines(SubSeq(text, Len(ReadUntil(text, 1, NEWLINE)) + 1, Len(text)))

\* The chunk files of a list, one after the other.
RECURSIVE FileTexts(_)
FileTexts(packed_files) ==
    IF packed_files = <<>> THEN <<>>
    ELSE fs.files[Head(packed_files)] \o FileTexts(Tail(packed_files))

\* C13: over chunk files built from marked lines, the superchunk
\* parse_packed_files builds is the fragments of all lines, in line order and
\* then in list order, no marker byte kept and no fragment byte dropped:
\* marking its lines again gives the files' bytes.
C13_SuperchunkIsTheFragments ==
    (/\ pc \in {"cl_loop", "done"} /\ last.fn = "none"
     /\ \A i \in 1..Len(cl_chunk_files) : MarkedLines(fs.files[cl_chunk_files[i]]))
        => /\ pc = "cl_loop"
           /\ Commented(f.buf) = FileTexts(cl_chunk_files)

\* The payload of the last entry of es that has the path of entry i.
LastPayload(es, i) ==
    es[CHOOSE j \in i..Len(es) :
          /\ es[j].path = es[i].path
          /\ \A k \in (j + 1)..Len(es) : es[k].path # es[i].path].payload

\* C20: decoding the chunked layout of an entry list in which paths may
\* repeat counts every entry once and leaves at each path the payload of the
\* last entry that has it.
C20_LastEntryWins ==
    (pc = "done" /\ cl_chunk_files = <<CL_FILES[1]>>)
        => \A es \in Lists(ChEntries, MaxEntries) :
              (/\ \A i, j \in 1..Len(es) : es[i].path = es[j].path \/ PrefixFree(<<es[i], es[j]>>)
               /\ fs.files[CL_FILES[1]] = Commented(EncodeCh(RecordsOf(es))))
              => /\ result.tag = "Ok"
                 /\ result.files = Len(es)
                 /\ Outputs = {Join(Append(OUT, LUA), es[i].path) : i \in 1..Len(es)}
                 /\ \A i \in 1..Len(es) :
                       fs.files[Join(Append(OUT, LUA), es[i].path)] = LastPayload(es, i)

(***************************************************************************)
(* Properties of both decoder loops (SpecDec)                              *)
(***************************************************************************)
Loops == {"sv_loop", "cl_loop", "sh_loop"}

\* C19: in a decoder loop the read position lies within the source or just
\* after its end and no more entries were read than bytes consumed; a pass
\* of the loop never moves the position backwards nor changes the source,
\* and a pass after which the loop goes on has consumed at least one byte.
C19_DecoderLoopsEnd ==
    /\ [](pc \in Loops => (/\ f.pos \in 1..(Len(f.buf) + 1)
                            /\ entries < f.pos))
    /\ [][/\ pc \in Loops => f'.pos >= f.pos
          /\ (pc \in Loops /\ pc' = pc) => (f'.pos > f.pos /\ f'.buf = f.buf)]_vars

\* A decoder loop that has gone on after an entry and then stopped on an
\* error, with bytes of the source left unread.
C19_Witness ==
    /\ pc = "done" /\ entries = 1 /\ last.ret \in Errors /\ last.from > 1
    /\ f.pos <= Len(f.buf)

Range(list) == {list[i] : i \in 1..Len(list)}

\* The tree holds one legacy file at most and no chunk file other than
\* CL_FILES and SH_FILE.
PlainTree == {SV_FILE_TOO, ODD_CL_FILE} \cap DOMAIN fs.files = {}

\* C9: with no_copy, discovery hands the legacy decoder the file
\* gluapack.sv.lua of the packaging subfolder when the tree holds one and no
\* file otherwise (never a loader file), and the client-side and shared
\* lists are the chunk files of suffix .cl.lua and .sh.lua.
C9_NoCopyDiscovery ==
    (no_copy /\ pc # "start" /\ PlainTree)
        => /\ sv_packed_file = IF SV_FILE \in DOMAIN fs.files THEN <<SV_FILE>> ELSE <<>>
           /\ Range(cl_chunk_files) = Range(CL_FILES) \cap DOMAIN fs.files
           /\ Range(sh_chunk_files) = {SH_FILE} \cap DOMAIN fs.files

\* The path below OUT that a path below DIR is copied to.
Copied(q) == OUT \o StripPrefix(q, DIR)

\* C10: over a tree with a loader file, a packaging subfolder with chunk
\* files, a dotfile and gluapack.json, the copy pass ends without error,
\* the destination holds none of the four and every other file and
\* directory at its relative path, and the pass returns the legacy file and
\* the chunk files by suffix.
C10_CopierExclusion ==
    (/\ ~no_copy /\ pc \notin {"start", "copy"} /\ PlainTree
     /\ {LOADER, DOT_GIT_CONFIG, MANIFEST} \subseteq DOMAIN fs.files
     /\ Range(CL_FILES) \cap DOMAIN fs.files # {})
        => /\ ~(pc = "done" /\ out_dir = OUT)
           /\ \A q \in {LOADER, DOT_GIT_CONFIG, MANIFEST} : Copied(q) \notin DOMAIN fs.files
           /\ Copied(Parent(DOT_GIT_CONFIG)) \notin fs.dirs
           /\ Copied(DIR \o <<LUA, GLUAPACK>>) \notin fs.dirs
           /\ \A q \in {ADDON_TXT, INIT_LUA} \cap DOMAIN fs.files :
                 /\ Copied(q) \in DOMAIN fs.files
                 /\ fs.files[Copied(q)] = fs.files[q]
           /\ sv_packed_file = IF SV_FILE \in DOMAIN fs.files THEN <<SV_FILE>> ELSE <<>>
           /\ Range(cl_chunk_files) = Range(CL_FILES) \cap DOMAIN fs.files
           /\ Range(sh_chunk_files) = {SH_FILE} \cap DOMAIN fs.files

\* The place of a step of unpack, and of a decoder, in the order of phases.
Rank(at) ==
    IF at \in {"start", "copy", "none"} THEN 0
    ELSE IF at \in {"sv", "sv_loop"} THEN 1
    ELSE IF at \in {"cl", "cl_loop"} THEN 2
    ELSE IF at \in {"sh", "sh_loop"} THEN 3
    ELSE 4

\* C15: a decoder has read an entry only after the copy has returned with
\* every file it copies in place; the source a decoder loop reads is that
\* of its own phase (the legacy file, the client-side superchunk, the
\* shared superchunk); and unpack moves through copy or discovery, legacy
\* decode, client-side decode, shared decode in that order, one at a time.
C15_PhaseOrder ==
    /\ [](/\ (~no_copy /\ last # NoEntry)
              => /\ stack = <<>> /\ pc \notin {"start", "copy"}
                 /\ \A q \in {ADDON_TXT, INIT_LUA} \cap DOMAIN fs.files :
                       /\ Copied(q) \in DOMAIN fs.files
                       /\ fs.files[Copied(q)] = fs.files[q]
          /\ Rank(last.fn) <= Rank(pc)
          /\ pc = "sv_loop" => (last.fn \in {"none", "sv"}
                                /\ f.buf = fs.files[sv_packed_file[1]])
          /\ pc = "cl_loop" => (last.fn \in {"none", "sv", "cl"}
                                /\ f.buf = Superchunk(fs, cl_chunk_files).buf)
          /\ pc = "sh_loop" => f.buf = Superchunk(fs, sh_chunk_files).buf)
    /\ [][/\ Rank(pc') >= Rank(pc)
          /\ last' # last => Rank(last'.fn) = Rank(pc)]_vars

\* In copy mode all three decoders have written their entries, in order,
\* after a copy that put addon.txt in place.
C15_Witness ==
    /\ ~no_copy /\ result.tag = "Ok" /\ last.fn = "sh"
    /\ sv_packed_file # <<>> /\ cl_chunk_files # <<>> /\ sh_chunk_files # <<>>
    /\ Copied(ADDON_TXT) \in DOMAIN fs.files
    /\ \A q \in {B(<<"a">>), B(<<"b">>), B(<<"c">>)} : Append(out_dir, q) \in DOMAIN fs.files

\* The copy phase has failed: unpack is over before out_dir was moved to lua.
CopyFailed == pc = "done" /\ out_dir = OUT

C16_LegacyFileAssignedOnce ==
    /\ [](~(CopyFailed /\ result.tag = "panic"))
    /\ [][(pc = "copy" /\ sv_packed_file' # sv_packed_file) => sv_packed_file = <<>>]_vars


\* The pass of the copy loop over the entry `name` of the innermost
\* directory being read gets to std::fs::copy (line 161): the entry is a
\* file, and the pass writes it or fails.
ReachesCopy(name) ==
    LET top == stack[Len(stack)]
        r == CopyEntryStep(fs, visited_symlinks, sv_packed_file, cl_chunk_files,
                           sh_chunk_files, Append(DIR, LUA), top.from, top.to, name, FALSE)
    IN /\ IsFile(fs, Append(top.from, name))
       /\ (r.kind = "error" \/ r.fs # fs)

\* C18: whenever the walk is about to copy a file to to/file_name, the
\* directory `to` exists, also below an excluded directory.
C18_DestinationParentExists ==
    (pc = "copy" /\ stack # <<>>)
        => \A name \in stack[Len(stack)].todo :
              ReachesCopy(name) => IsDir(fs, stack[Len(stack)].to)


(***************************************************************************)
(* The tree copier alone, over source trees with symbolic links: unpack    *)
(* copies DIR into the empty OUT and stands before the decoders.  A link's *)
(* target is the absolute path read_link returns for it.                   *)
(***************************************************************************)
SUBDIR == Append(DIR, B(<<"d">>))
X_TXT == Append(SUBDIR, B(<<"x", ".", "t", "x", "t">>))
LINK_L == Append(DIR, B(<<"l">>))
LINK_M == Append(SUBDIR, B(<<"m">>))

\* Where a link may point: at the tree's root, at SUBDIR, at SUBDIR's parent
\* by "..", at a file, at the other link.
LinkTargets == {DIR, SUBDIR, Append(SUBDIR, DOTDOT), X_TXT, LINK_L}

\* The links of a tree: each of the two link places is a link or is absent.
LinkMaps == UNION {[places -> LinkTargets] : places \in SUBSET {LINK_L, LINK_M}}

InitCopy ==
    /\ \E some \in SUBSET {X_TXT}, links \in LinkMaps :
          fs = [FsOf([q \in some |-> B(<<"a">>)],
                     {SUBDIR, Append(DIR, LUA)})
                EXCEPT !.links = links]
    /\ pc = "start"
    /\ no_copy = FALSE
    /\ out_dir = OUT
    /\ stack = <<>>
    /\ visited_symlinks = {}
    /\ sv_packed_file = <<>>
    /\ cl_chunk_files = <<>>
    /\ sh_chunk_files = <<>>
    /\ f = [buf |-> <<>>, pos |-> 1]
    /\ entries = 0
    /\ total_unpacked_files = 0
    /\ total_packed_files = 0
    /\ result = Running
    /\ last = NoEntry

NextCopy == CopyAddon \/ CopyEntry \/ CopyReturn \/ CopyDone

SpecCopy == InitCopy /\ [][NextCopy]_vars

(***************************************************************************)
(* Properties of the tree copier (SpecCopy)                                *)
(***************************************************************************)
\* The copy pass is over: copy_addon returned or panicked.
CopyOver == pc \notin {"start", "copy"}

\* Link l points back at a directory the walk is in when it meets l: its
\* target is a directory at or above the directory that holds l.
PointsBack(l) ==
    /\ IsDir(fs, fs.links[l])
    /\ HasPrefix(Parent(l), Resolve(fs, fs.links[l]))

\* C11: over a tree with a symbolic link that points back into a directory
\* being visited, the copier's walk finishes by returning Ok or an I/O
\* error: when the walk is over, copy_addon has returned.
C11_CycleWalkReturns ==
    ((\E l \in DOMAIN fs.links : PointsBack(l)) /\ CopyOver)
        => result.tag # "panic"

\* The place the target of the symbolic link at path l resolves to.
TargetOf(l) == Resolve(fs, fs.links[ResolveNoFollow(fs, l)])

\* C12: within one copy pass each resolved symlink target is followed at most
\* once: no two symbolic links the walk has followed resolve to the same
\* file or directory.
C12_TargetFollowedOnce ==
    \A a, b \in visited_symlinks :
        (a # b /\ TargetOf(a) \in fs.dirs \cup DOMAIN fs.files)
            => TargetOf(a) # TargetOf(b)

====
